---------------------------- MODULE Spec2Model ----------------------------
(***************************************************************************)
(* Model of the virtual BDF collision validator of the ACRN configurator   *)
(* (misc/config_tools/configurator/pyodide/verifyBDFCollision.py).         *)
(*                                                                         *)
(* Strings are sequences of one-character strings, so that stripping,      *)
(* the regular expression of validate_ and the slice x[3:5] of the         *)
(* load-order check are computed character by character.  Python's True,   *)
(* False and None are the strings "True", "False" and "None"; an uncaught  *)
(* exception is the string naming it.                                      *)
(***************************************************************************)
EXTENDS Integers, Sequences, FiniteSets, TLC

VARIABLES
    board,              \* lines of /acrn-config/PCI_DEVICE/text()
    debug,              \* text nodes of hv/DEBUG_OPTIONS/VUART_VBDF (0 or 1)
    vuart_connections,  \* hv/vuart_connections/vuart_connection, each its endpoints
    ivshmem_regions,    \* hv/FEATURES/IVSHMEM/IVSHMEM_REGION, each its IVSHMEM_VMs
    native_,            \* self.native_
    vuart_vbdfs,        \* self.vuart_vbdfs
    ivshmem_vbdfs,      \* self.ivshmem_vbdfs
    pc,                 \* position inside validate()
    gi,                 \* index of the group being iterated
    ei,                 \* index of the endpoint being iterated in that group
    vm_cfg,             \* the local dict vm_cfg of validate_vuart / validate_ivshmem
    pci_result,
    vuart_result,
    ivshmem_result,
    result,             \* the dict built by validate(), as a sequence of items
    ret,                \* the overall verdict
    exc,                \* the exception that left validate(), "" if none
    lo_pc,              \* position of a direct call of validate_load_order
    lo_name,            \* its argument name
    lo_vbdf,            \* its argument vbdf
    lo_out,             \* its return value
    parse_pc,           \* position of a direct call of validate_
    parse_bdf,          \* its argument bdf
    parse_m1,           \* its return value
    parse_m2,           \* the return value of validate_ applied to parse_m1
    calls,              \* the validate() calls on the instance, the current included
    first_outcome,      \* what the first validate() call on the instance ended with
    ua_pc,              \* position inside update_asound()
    f_conf,             \* the lines of /etc/asound.conf as the call found them
    usb_card,           \* the argument usb_card
    usb_plug,           \* the local usb_plug
    ua_i,               \* the number of lines read
    data,               \* the local data
    plug_at,            \* usb_plug when each line was read, in reading order
    asound_conf         \* the content of /etc/asound.conf

vars == << board, debug, vuart_connections, ivshmem_regions, native_,
           vuart_vbdfs, ivshmem_vbdfs, pc, gi, ei, vm_cfg, pci_result,
           vuart_result, ivshmem_result, result, ret, exc,
           lo_pc, lo_name, lo_vbdf, lo_out,
           parse_pc, parse_bdf, parse_m1, parse_m2, calls, first_outcome,
           ua_pc, f_conf, usb_card, usb_plug, ua_i, data, plug_at, asound_conf >>

inputVars == << board, debug, vuart_connections, ivshmem_regions >>
loVars == << lo_pc, lo_name, lo_vbdf, lo_out >>
parseVars == << parse_pc, parse_bdf, parse_m1, parse_m2 >>
callVars == << calls, first_outcome >>
asoundVars == << ua_pc, f_conf, usb_card, usb_plug, ua_i, data, plug_at, asound_conf >>

-----------------------------------------------------------------------------
(* Characters and strings *)

HexDigits == << "0", "1", "2", "3", "4", "5", "6", "7",
                "8", "9", "a", "b", "c", "d", "e", "f" >>

UpperHex == << "A", "B", "C", "D", "E", "F" >>

Whitespace == { " ", "\t", "\n" }

Range(s) == { s[i] : i \in 1..Len(s) }

Min(S) == CHOOSE x \in S : \A y \in S : x <= y

\* the characters of [0-9a-fA-F]
HexChars == Range(HexDigits) \cup Range(UpperHex)

IsHex(c) == c \in HexChars

\* value of [0-9a-fA-F]
HexVal(c) ==
    IF \E i \in 1..16 : HexDigits[i] = c
    THEN (CHOOSE i \in 1..16 : HexDigits[i] = c) - 1
    ELSE (CHOOSE i \in 1..6 : UpperHex[i] = c) + 9

RECURSIVE lstrip(_)
lstrip(s) == IF s # << >> /\ Head(s) \in Whitespace THEN lstrip(Tail(s)) ELSE s

RECURSIVE rstrip(_)
rstrip(s) ==
    IF s # << >> /\ s[Len(s)] \in Whitespace THEN rstrip(SubSeq(s, 1, Len(s) - 1)) ELSE s

\* str.strip()
strip(s) == rstrip(lstrip(s))

\* Python's s[a:b] with 0 <= a <= b (0-based, end excluded, clipped to len(s))
Slice(s, a, b) ==
    LET hi == IF b < Len(s) THEN b ELSE Len(s)
    IN  IF a >= hi THEN << >> ELSE SubSeq(s, a + 1, hi)

-----------------------------------------------------------------------------
(* validate_ : the BDF parser *)

\* ":[0-1][0-9A-Fa-f]\.[0-7]" at position j of s
RestMatches(s, j) ==
    /\ j + 4 <= Len(s)
    /\ s[j] = ":"
    /\ s[j + 1] \in { "0", "1" }
    /\ IsHex(s[j + 2])
    /\ s[j + 3] = "."
    /\ s[j + 4] \in { "0", "1", "2", "3", "4", "5", "6", "7" }

\* length of the match of group 1 starting at position i of s, 0 if none:
\* [0-9a-fA-F]{1,2} is greedy, two digits are tried before one
MatchLen(s, i) ==
    IF i + 1 <= Len(s) /\ IsHex(s[i]) /\ IsHex(s[i + 1]) /\ RestMatches(s, i + 2)
    THEN 7
    ELSE IF i <= Len(s) /\ IsHex(s[i]) /\ RestMatches(s, i + 1)
         THEN 6
         ELSE 0

RECURSIVE Search(_, _)
\* re.search from position i on: group 1 of the leftmost match, "" if none
Search(s, i) ==
    IF i > Len(s) THEN << >>
    ELSE IF MatchLen(s, i) > 0 THEN SubSeq(s, i, i + MatchLen(s, i) - 1)
    ELSE Search(s, i + 1)

RECURSIVE SearchGroup0(_, _)
\* the leftmost match with all that follows it
SearchGroup0(s, i) ==
    IF i > Len(s) THEN << >>
    ELSE IF MatchLen(s, i) > 0 THEN SubSeq(s, i, Len(s))
    ELSE SearchGroup0(s, i + 1)

\* validate_ returning m.group(0), the match with its trailing text
validate_group0(bdf) == strip(SearchGroup0(strip(bdf), 1))

RECURSIVE SearchOneMore(_, _)
\* group 1 of the leftmost match and the character after it
SearchOneMore(s, i) ==
    IF i > Len(s) THEN << >>
    ELSE IF MatchLen(s, i) > 0 THEN SubSeq(s, i, Min({ Len(s), i + MatchLen(s, i) }))
    ELSE SearchOneMore(s, i + 1)

\* validate_ with a group that takes one character more
validate_one_more(bdf) == strip(SearchOneMore(strip(bdf), 1))

\* group 1 of the leftmost match in the stripped text, stripped; "" if none
validate_(bdf) == strip(Search(strip(bdf), 1))

-----------------------------------------------------------------------------
(* validate_load_order : the load-order policy *)

PyBool(b) == IF b THEN "True" ELSE "False"

\* whether int('0x' + t, 16) has a value, for a text t without sign, blank or
\* underscore (the texts a slice of "" or of a match of validate_ can be)
IsHexText(t) == t # << >> /\ \A i \in 1..Len(t) : IsHex(t[i])

RECURSIVE HexInt(_)
\* int('0x' + t, 16) where it has a value
HexInt(t) ==
    IF t = << >> THEN 0
    ELSE 16 * HexInt(SubSeq(t, 1, Len(t) - 1)) + HexVal(t[Len(t)])

\* the lambda check_ of validate_load_order; int() raises ValueError
check_(x) ==
    LET t == Slice(x, 3, 5)
    IN  IF ~IsHexText(t) THEN "ValueError"
        ELSE PyBool(HexInt(t) >= 3 /\ HexInt(t) < 31)

\* validate_load_order with the device range applied to every vm of the scenario
validate_load_order_every_vm(base, name, vbdf) ==
    IF \E i \in 1..Len(base) : base[i].name = name THEN check_(vbdf) ELSE "None"

\* the first vm of base whose name is `name` decides; None when there is none
validate_load_order(base, name, vbdf) ==
    LET named == { i \in 1..Len(base) : base[i].name = name }
    IN  IF named = {} THEN "None"
        ELSE IF base[Min(named)].load_order # "POST_LAUNCHED_VM" THEN "True"
        ELSE check_(vbdf)

-----------------------------------------------------------------------------
(* The instance properties and helpers of VBDFValidator *)

RECURSIVE ParsedLines(_)
\* the addresses one read of the property `native` appends to self.native_
ParsedLines(lines) ==
    IF lines = << >> THEN << >>
    ELSE LET pci == Head(lines)
             m1 == validate_(pci)
         IN  IF pci = << >> \/ m1 = << >> \/ Slice(m1, 0, 7) = << "0", "0", ":", "0", "0", ".", "0" >>
             THEN ParsedLines(Tail(lines))
             ELSE << m1 >> \o ParsedLines(Tail(lines))

RECURSIVE RawLines(_)
RawLines(lines) ==
    IF lines = << >> THEN << >>
    ELSE (IF Head(lines) = << >> THEN << >> ELSE << Head(lines) >>) \o RawLines(Tail(lines))

\* self.native with "self.native_.append(pci)", the line as the board has it
native_raw_lines(nat, brd) == nat \o RawLines(brd)

RECURSIVE ParsedLines_KeepRoot(_)
ParsedLines_KeepRoot(lines) ==
    IF lines = << >> THEN << >>
    ELSE LET pci == Head(lines)
             m1 == validate_(pci)
         IN  IF pci = << >> \/ m1 = << >>
             THEN ParsedLines_KeepRoot(Tail(lines))
             ELSE << m1 >> \o ParsedLines_KeepRoot(Tail(lines))

\* self.native without the "continue" for 00:00.0
native_with_root(nat, brd) == nat \o ParsedLines_KeepRoot(brd)

\* self.native : the list self.native_ after this read
native(nat, brd) == nat \o ParsedLines(brd)

\* self.vuart_vbdf with "bdfs = [vuart_vbdf_validated]" whatever _scenario is
vuart_vbdf_always_listed(dbg) ==
    IF dbg = << >> THEN << << >> >> ELSE << validate_(strip(dbg[1])) >>

\* self.vuart_vbdf
vuart_vbdf(dbg) == IF dbg = << >> THEN << >> ELSE << validate_(strip(dbg[1])) >>

RECURSIVE Lower(_)
\* str.lower() of a text of hex digits and punctuation
Lower(x) ==
    IF x = << >> THEN << >>
    ELSE << IF Head(x) \in Range(UpperHex) THEN HexDigits[HexVal(Head(x)) + 1] ELSE Head(x) >>
         \o Lower(Tail(x))

\* validate_native comparing the addresses in lower case
validate_native_lower(bdfs, nat) ==
    PyBool({ Lower(bdfs[i]) : i \in 1..Len(bdfs) } \cap { Lower(nat[i]) : i \in 1..Len(nat) } = {})

\* validate_native without its "not"
validate_native_inverted(bdfs, nat) == PyBool(Range(bdfs) \cap Range(nat) # {})

\* not set(bdfs) & set(self.native), given the list the read of self.native returned
validate_native(bdfs, nat) == PyBool(Range(bdfs) \cap Range(nat) = {})

\* not set(bdfs) & set(self.vuart_vbdf)
valid_vuart_vbdf(bdfs, dbg) == PyBool(Range(bdfs) \cap Range(vuart_vbdf(dbg)) = {})

-----------------------------------------------------------------------------
(* The dict vm_cfg: items in insertion order *)

Has(d, k) == \E i \in 1..Len(d) : d[i].k = k

Get(d, k) == d[CHOOSE i \in 1..Len(d) : d[i].k = k].v

Index(d, k) == CHOOSE i \in 1..Len(d) : d[i].k = k

RECURSIVE Values(_)
\* the concatenation of the values, as "for _, v in vm_cfg.items(): xs.extend(v)"
Values(d) == IF d = << >> THEN << >> ELSE Head(d).v \o Values(Tail(d))

-----------------------------------------------------------------------------
(* The board and scenario documents the validator is constructed with *)

\* the most endpoints a scenario configures, over both categories
MaxEndpoints == 2

\* the same for the scenarios of longer groups over fewer endpoints
MaxDeepEndpoints == 3

Bdf_00_00_0 == << "0", "0", ":", "0", "0", ".", "0" >>
Bdf_00_02_0 == << "0", "0", ":", "0", "2", ".", "0" >>
Bdf_00_05_0 == << "0", "0", ":", "0", "5", ".", "0" >>
Unparsable  == << "z", "z" >>

\* the vm elements of the scenario: name and load_order
vms == << [ name |-> "VM0", load_order |-> "PRE_LAUNCHED_VM" ],
          [ name |-> "VM1", load_order |-> "SERVICE_VM" ],
          [ name |-> "VM2", load_order |-> "POST_LAUNCHED_VM" ] >>

\* the name no vm of the scenario has
UnknownVM == "VM9"

\* what an endpoint (or IVSHMEM_VM) of the scenario may hold
EndpointNames == { "VM1", "VM2", UnknownVM }
RawVbdfs == { Bdf_00_05_0, Bdf_00_02_0, Unparsable }
Endpoints == [ vm_name : EndpointNames, vbdf : RawVbdfs ]

\* the PCI_DEVICE texts, split in lines; the second has a device description
Boards == { << >>,
            << Bdf_00_00_0, Bdf_00_02_0 \o << " ", "V", "G", "A" >> >>,
            << Bdf_00_00_0, Unparsable, Bdf_00_05_0 >> }

\* the VUART_VBDF texts: none, an address, a text that is no address
Debugs == { << >>, << Bdf_00_05_0 >>, << Unparsable >> }

\* fewer endpoints, boards and debug UARTs, for scenarios of more endpoints
DeepEndpoints == [ vm_name : { "VM1", "VM2" }, vbdf : { Bdf_00_05_0, Unparsable } ]
DeepBoards == { << Bdf_00_00_0, Bdf_00_02_0 \o << " ", "V", "G", "A" >> >> }
DeepDebugs == { << >>, << Bdf_00_05_0 >> }

RECURSIVE SeqsOfLen(_, _)
SeqsOfLen(S, n) ==
    IF n = 0 THEN { << >> }
    ELSE { << x >> \o r : x \in S, r \in SeqsOfLen(S, n - 1) }

RECURSIVE GroupConfigs(_, _)
\* the groups of a category (vuart_connection or IVSHMEM_REGION elements) with
\* at most n endpoints in all from E, each group with one endpoint or more
GroupConfigs(E, n) ==
    { << >> } \cup
    UNION { { << g >> \o r : g \in SeqsOfLen(E, j), r \in GroupConfigs(E, n - j) }
            : j \in 1..n }

RECURSIVE Flat(_)
\* the endpoints of the groups, in document order
Flat(groups) == IF groups = << >> THEN << >> ELSE Head(groups) \o Flat(Tail(groups))

-----------------------------------------------------------------------------
(* One endpoint of a group, and the check that ends a category *)

\* xpath(f + '/text()') of the endpoint p is the empty list: p has no element f,
\* or the element has no text, and the subscript [0] raises IndexError
Lacks(p, f) == f \notin DOMAIN p \/ Len(p[f]) = 0

\* ProcessEndpoint with the membership test against the values of every VM
ProcessEndpoint_AcrossVms(cfg, p) ==
    LET vm_name == p.vm_name
        vm_vbdf == validate_(strip(p.vbdf))
        lo == validate_load_order(vms, vm_name, vm_vbdf)
    IN  IF Lacks(p, "vm_name") \/ Lacks(p, "vbdf")
        THEN [ kind |-> "raise", cfg |-> cfg, exc |-> "IndexError" ]
        ELSE IF lo = "ValueError"
        THEN [ kind |-> "raise", cfg |-> cfg, exc |-> "ValueError" ]
        ELSE IF lo # "True" THEN [ kind |-> "return", cfg |-> cfg, exc |-> "" ]
        ELSE IF vm_vbdf \in Range(Values(cfg))
             THEN [ kind |-> "return", cfg |-> cfg, exc |-> "" ]
        ELSE IF ~Has(cfg, vm_name)
             THEN [ kind |-> "next", exc |-> "",
                    cfg |-> Append(cfg, [ k |-> vm_name, v |-> << vm_vbdf >> ]) ]
        ELSE [ kind |-> "next", exc |-> "",
               cfg |-> [ cfg EXCEPT ![Index(cfg, vm_name)].v = Append(@, vm_vbdf) ] ]

\* The body of the inner loop of validate_vuart and of validate_ivshmem:
\* "raise" when a subscript or validate_load_order raises, "return" when the category
\* returns False, "next" with the updated vm_cfg otherwise.
ProcessEndpoint(cfg, p) ==
    LET vm_name == p.vm_name
        vm_vbdf == validate_(strip(p.vbdf))
        lo == validate_load_order(vms, vm_name, vm_vbdf)
    IN  IF Lacks(p, "vm_name") \/ Lacks(p, "vbdf")
        THEN [ kind |-> "raise", cfg |-> cfg, exc |-> "IndexError" ]
        ELSE IF lo = "ValueError"
        THEN [ kind |-> "raise", cfg |-> cfg, exc |-> "ValueError" ]
        ELSE IF lo # "True" THEN [ kind |-> "return", cfg |-> cfg, exc |-> "" ]
        ELSE IF ~Has(cfg, vm_name)
             THEN [ kind |-> "next", exc |-> "",
                    cfg |-> Append(cfg, [ k |-> vm_name, v |-> << vm_vbdf >> ]) ]
        ELSE IF vm_vbdf \in Range(Get(cfg, vm_name))
             THEN [ kind |-> "return", cfg |-> cfg, exc |-> "" ]
        ELSE [ kind |-> "next", exc |-> "",
               cfg |-> [ cfg EXCEPT ![Index(cfg, vm_name)].v = Append(@, vm_vbdf) ] ]

\* the tail that also fails a list that holds a value twice
CrossCheck_NoRepeats(xs, nat, dbg) ==
    IF Len(xs) # Cardinality(Range(xs)) THEN "False"
    ELSE IF validate_native(xs, nat) # "True" THEN "False"
    ELSE valid_vuart_vbdf(xs, dbg)

\* The tail of validate_vuart and of validate_ivshmem: xs is the instance
\* list after extend(), nat the list the read of self.native returned.
CrossCheck(xs, nat, dbg) ==
    IF validate_native(xs, nat) # "True" THEN "False"
    ELSE valid_vuart_vbdf(xs, dbg)

-----------------------------------------------------------------------------
(* validate() of a freshly constructed VBDFValidator *)

NoLoadOrderCall ==
    /\ lo_pc = "idle"
    /\ lo_name = ""
    /\ lo_vbdf = << >>
    /\ lo_out = ""

\* the first validate() call on the instance
FirstCall ==
    /\ calls = 1
    /\ first_outcome = << >>

NoAsoundCall ==
    /\ ua_pc = "idle"
    /\ f_conf = << >>
    /\ usb_card = << >>
    /\ usb_plug = 0
    /\ ua_i = 0
    /\ data = << >>
    /\ plug_at = << >>
    /\ asound_conf = << >>

NoParseCall ==
    /\ parse_pc = "idle"
    /\ parse_bdf = << >>
    /\ parse_m1 = << >>
    /\ parse_m2 = << >>

\* the state after VBDFValidator(board, scenario), validate() about to run
Constructed(boards, debugs, E, n) ==
    /\ board \in boards
    /\ debug \in debugs
    /\ vuart_connections \in GroupConfigs(E, n)
    /\ ivshmem_regions \in GroupConfigs(E, n - Len(Flat(vuart_connections)))
    /\ native_ = << >>
    /\ vuart_vbdfs = << >>
    /\ ivshmem_vbdfs = << >>
    /\ pc = "validate"
    /\ gi = 0
    /\ ei = 0
    /\ vm_cfg = [ vuart |-> << >>, ivshmem |-> << >> ]
    /\ pci_result = "None"
    /\ vuart_result = "None"
    /\ ivshmem_result = "None"
    /\ result = << >>
    /\ ret = "None"
    /\ exc = ""
    /\ NoLoadOrderCall
    /\ NoParseCall
    /\ FirstCall
    /\ NoAsoundCall

Init == Constructed(Boards, Debugs, Endpoints, MaxEndpoints)

InitDeep == Constructed(DeepBoards, DeepDebugs, DeepEndpoints, MaxDeepEndpoints)

\* pci_result = self.validate_pci(): valid_vuart_vbdf(self.native)
ValidatePci ==
    /\ pc = "validate"
    /\ native_' = native(native_, board)
    /\ pci_result' = valid_vuart_vbdf(native_', debug)
    /\ pc' = "vuart"
    /\ UNCHANGED << asoundVars, callVars, inputVars, loVars, parseVars, vuart_vbdfs, ivshmem_vbdfs, gi, ei, vm_cfg,
                    vuart_result, ivshmem_result, result, ret, exc >>

\* validate_vuart(): the xpath query and the return of None
VuartBegin ==
    /\ pc = "vuart"
    /\ IF vuart_connections = << >>
       THEN /\ vuart_result' = "None"
            /\ pc' = "ivshmem"
            /\ UNCHANGED << gi, ei, vm_cfg >>
       ELSE /\ vm_cfg' = [ vm_cfg EXCEPT !.vuart = << >> ]
            /\ gi' = 1
            /\ ei' = 1
            /\ pc' = "vuart_loop"
            /\ UNCHANGED vuart_result
    /\ UNCHANGED << asoundVars, callVars, inputVars, loVars, parseVars, native_, vuart_vbdfs, ivshmem_vbdfs,
                    pci_result, ivshmem_result, result, ret, exc >>

\* validate_vuart(): one endpoint of one connection
VuartEndpoint ==
    /\ pc = "vuart_loop"
    /\ gi <= Len(vuart_connections)
    /\ LET r == ProcessEndpoint(vm_cfg.vuart, vuart_connections[gi][ei])
           last == ei = Len(vuart_connections[gi])
       IN  /\ pc' = CASE r.kind = "raise" -> "raised"
                      [] r.kind = "return" -> "ivshmem"
                      [] OTHER -> "vuart_loop"
           /\ exc' = IF r.kind = "raise" THEN r.exc ELSE exc
           /\ vuart_result' = IF r.kind = "return" THEN "False" ELSE vuart_result
           /\ vm_cfg' = [ vm_cfg EXCEPT !.vuart = r.cfg ]
           /\ gi' = IF r.kind = "next" /\ last THEN gi + 1 ELSE gi
           /\ ei' = IF r.kind = "next" THEN (IF last THEN 1 ELSE ei + 1) ELSE ei
    /\ UNCHANGED << asoundVars, callVars, inputVars, loVars, parseVars, native_, vuart_vbdfs, ivshmem_vbdfs,
                    pci_result, ivshmem_result, result, ret >>

\* validate_vuart(): after the loops
VuartCross ==
    /\ pc = "vuart_loop"
    /\ gi > Len(vuart_connections)
    /\ vuart_vbdfs' = vuart_vbdfs \o Values(vm_cfg.vuart)
    /\ native_' = native(native_, board)
    /\ vuart_result' = CrossCheck(vuart_vbdfs', native_', debug)
    /\ pc' = "ivshmem"
    /\ UNCHANGED << asoundVars, callVars, inputVars, loVars, parseVars, ivshmem_vbdfs, gi, ei, vm_cfg,
                    pci_result, ivshmem_result, result, ret, exc >>

\* validate_ivshmem(): the xpath query and the return of None
IvshmemBegin ==
    /\ pc = "ivshmem"
    /\ IF ivshmem_regions = << >>
       THEN /\ ivshmem_result' = "None"
            /\ pc' = "report"
            /\ UNCHANGED << gi, ei, vm_cfg >>
       ELSE /\ vm_cfg' = [ vm_cfg EXCEPT !.ivshmem = << >> ]
            /\ gi' = 1
            /\ ei' = 1
            /\ pc' = "ivshmem_loop"
            /\ UNCHANGED ivshmem_result
    /\ UNCHANGED << asoundVars, callVars, inputVars, loVars, parseVars, native_, vuart_vbdfs, ivshmem_vbdfs,
                    pci_result, vuart_result, result, ret, exc >>

\* validate_ivshmem(): one IVSHMEM_VM of one region
IvshmemEndpoint ==
    /\ pc = "ivshmem_loop"
    /\ gi <= Len(ivshmem_regions)
    /\ LET r == ProcessEndpoint(vm_cfg.ivshmem, ivshmem_regions[gi][ei])
           last == ei = Len(ivshmem_regions[gi])
       IN  /\ pc' = CASE r.kind = "raise" -> "raised"
                      [] r.kind = "return" -> "report"
                      [] OTHER -> "ivshmem_loop"
           /\ exc' = IF r.kind = "raise" THEN r.exc ELSE exc
           /\ ivshmem_result' = IF r.kind = "return" THEN "False" ELSE ivshmem_result
           /\ vm_cfg' = [ vm_cfg EXCEPT !.ivshmem = r.cfg ]
           /\ gi' = IF r.kind = "next" /\ last THEN gi + 1 ELSE gi
           /\ ei' = IF r.kind = "next" THEN (IF last THEN 1 ELSE ei + 1) ELSE ei
    /\ UNCHANGED << asoundVars, callVars, inputVars, loVars, parseVars, native_, vuart_vbdfs, ivshmem_vbdfs,
                    pci_result, vuart_result, result, ret >>

\* validate_ivshmem() after the loops, with one list for both categories
IvshmemCross_SharedList ==
    /\ pc = "ivshmem_loop"
    /\ gi > Len(ivshmem_regions)
    /\ ivshmem_vbdfs' = vuart_vbdfs \o ivshmem_vbdfs \o Values(vm_cfg.ivshmem)
    /\ native_' = native(native_, board)
    /\ ivshmem_result' = CrossCheck(ivshmem_vbdfs', native_', debug)
    /\ pc' = "report"
    /\ UNCHANGED << asoundVars, callVars, inputVars, loVars, parseVars, vuart_vbdfs, gi, ei, vm_cfg,
                    pci_result, vuart_result, result, ret, exc >>

\* validate_ivshmem(): after the loops
IvshmemCross ==
    /\ pc = "ivshmem_loop"
    /\ gi > Len(ivshmem_regions)
    /\ ivshmem_vbdfs' = ivshmem_vbdfs \o Values(vm_cfg.ivshmem)
    /\ native_' = native(native_, board)
    /\ ivshmem_result' = CrossCheck(ivshmem_vbdfs', native_', debug)
    /\ pc' = "report"
    /\ UNCHANGED << asoundVars, callVars, inputVars, loVars, parseVars, vuart_vbdfs, gi, ei, vm_cfg,
                    pci_result, vuart_result, result, ret, exc >>

\* "ret = ret or v" in place of "ret = ret and v"
PyAnd_Or(a, b) == IF a = "True" THEN a ELSE b

\* Python's "a and b" on True and False
PyAnd(a, b) == IF a = "True" THEN b ELSE a

RECURSIVE AndItems(_, _)
\* "for k, v in result.items(): ret = ret and v"
AndItems(r, items) ==
    IF items = << >> THEN r ELSE AndItems(PyAnd(r, Head(items).v), Tail(items))

\* the dict of validate() with the key ivshmem before the key vuart
ReportItems_IvshmemFirst(p, v, i) ==
    << [ k |-> "pci", v |-> p ] >>
    \o (IF i = "None" THEN << >> ELSE << [ k |-> "ivshmem", v |-> i ] >>)
    \o (IF v = "None" THEN << >> ELSE << [ k |-> "vuart", v |-> v ] >>)

\* the dict of validate() without the two conditional del
ReportItems_KeepNone(p, v, i) ==
    << [ k |-> "pci", v |-> p ], [ k |-> "vuart", v |-> v ], [ k |-> "ivshmem", v |-> i ] >>

\* the dict of validate() after the two conditional del
ReportItems(p, v, i) ==
    << [ k |-> "pci", v |-> p ] >>
    \o (IF v = "None" THEN << >> ELSE << [ k |-> "vuart", v |-> v ] >>)
    \o (IF i = "None" THEN << >> ELSE << [ k |-> "ivshmem", v |-> i ] >>)

\* validate(): the report and the overall verdict
Report ==
    /\ pc = "report"
    /\ result' = ReportItems(pci_result, vuart_result, ivshmem_result)
    /\ ret' = AndItems("True", result')
    /\ pc' = "done"
    /\ UNCHANGED << asoundVars, callVars, inputVars, loVars, parseVars, native_, vuart_vbdfs, ivshmem_vbdfs, gi, ei,
                    vm_cfg, pci_result, vuart_result, ivshmem_result, exc >>

Next ==
    \/ ValidatePci
    \/ VuartBegin
    \/ VuartEndpoint
    \/ VuartCross
    \/ IvshmemBegin
    \/ IvshmemEndpoint
    \/ IvshmemCross
    \/ Report

Spec == Init /\ [][Next]_vars

\* the same validate(), over scenarios of more endpoints
SpecDeep == InitDeep /\ [][Next]_vars

-----------------------------------------------------------------------------
(* validate() on boards that list the host bridge *)

Bdf_00_06_0 == << "0", "0", ":", "0", "6", ".", "0" >>
Bdf_00_1f_0 == << "0", "0", ":", "1", "f", ".", "0" >>

\* a board without devices, and one with the host bridge and two devices
HostBridgeBoards == { << >>, << Bdf_00_00_0, Bdf_00_02_0, Bdf_00_1f_0 >> }

\* no debug UART, and a debug UART given the address of the host bridge
HostBridgeDebugs == { << >>, << Bdf_00_00_0 >> }

HostBridgeEndpoints ==
    [ vm_name : { "VM1", "VM2" },
      vbdf : { Bdf_00_00_0, Bdf_00_05_0, Bdf_00_06_0, Unparsable } ]

InitHostBridge ==
    Constructed(HostBridgeBoards, HostBridgeDebugs, HostBridgeEndpoints, MaxEndpoints)

SpecHostBridge == InitHostBridge /\ [][Next]_vars

-----------------------------------------------------------------------------
(* validate() on scenarios with endpoints that lack an element *)

\* endpoints with both elements, without vbdf, and without vm_name
StructureEndpoints ==
    [ vm_name : { "VM1", "VM2" }, vbdf : { Bdf_00_05_0, Bdf_00_02_0 } ]
    \cup { [ vm_name |-> n ] : n \in { "VM1", "VM2" } }
    \cup { [ vbdf |-> v ] : v \in { Bdf_00_05_0, Bdf_00_02_0 } }

InitStructure == Constructed(DeepBoards, DeepDebugs, StructureEndpoints, MaxEndpoints)

SpecStructure == InitStructure /\ [][Next]_vars

-----------------------------------------------------------------------------
(* validate() on addresses that differ in the case of a hex digit *)

Bdf_00_1a_0 == << "0", "0", ":", "1", "a", ".", "0" >>
Bdf_00_1A_0 == << "0", "0", ":", "1", "A", ".", "0" >>
Bdf_00_1F_0 == << "0", "0", ":", "1", "F", ".", "0" >>

CaseBoards == { << >>, << Bdf_00_1f_0, Bdf_00_1a_0 >> }

CaseDebugs == { << >>, << Bdf_00_1F_0 >> }

CaseEndpoints ==
    [ vm_name : { "VM1", "VM2" },
      vbdf : { Bdf_00_1a_0, Bdf_00_1A_0, Bdf_00_1f_0, Bdf_00_1F_0 } ]

InitCase == Constructed(CaseBoards, CaseDebugs, CaseEndpoints, MaxEndpoints)

SpecCase == InitCase /\ [][Next]_vars

-----------------------------------------------------------------------------
(* validate() on addresses at the ends of the device range *)

Bdf_00_1d_0 == << "0", "0", ":", "1", "d", ".", "0" >>
Bdf_00_1e_0 == << "0", "0", ":", "1", "e", ".", "0" >>

RangeBoards == { << >>, << Bdf_00_1d_0 >> }

RangeDebugs == { << >> }

\* devices 2, 29, 30 and 31
RangeEndpoints ==
    [ vm_name : EndpointNames,
      vbdf : { Bdf_00_02_0, Bdf_00_1d_0, Bdf_00_1e_0, Bdf_00_1f_0 } ]

InitRange == Constructed(RangeBoards, RangeDebugs, RangeEndpoints, MaxEndpoints)

SpecRange == InitRange /\ [][Next]_vars

-----------------------------------------------------------------------------
(* validate() called again on the same instance *)

\* the most validate() calls on one instance
MaxCalls == 3

RepeatBoards == { << >>, << Bdf_00_00_0, Unparsable, Bdf_00_05_0 >> }

RepeatDebugs == { << >>, << Bdf_00_02_0 >> }

RepeatEndpoints ==
    [ vm_name : { "VM1", "VM2" }, vbdf : { Bdf_00_05_0, Bdf_00_02_0, Unparsable } ]

InitRepeat == Constructed(RepeatBoards, RepeatDebugs, RepeatEndpoints, MaxEndpoints)

\* what a validate() call ended with
Outcome ==
    [ pc |-> pc, exc |-> exc, pci |-> pci_result, vuart |-> vuart_result,
      ivshmem |-> ivshmem_result, result |-> result, ret |-> ret ]

\* validate() is called once more: the locals are new, the instance lists
\* native_, vuart_vbdfs and ivshmem_vbdfs are as the call before left them
ValidateAgain ==
    /\ pc \in { "done", "raised" }
    /\ calls < MaxCalls
    /\ calls' = calls + 1
    /\ first_outcome' = IF calls = 1 THEN Outcome ELSE first_outcome
    /\ pc' = "validate"
    /\ gi' = 0
    /\ ei' = 0
    /\ vm_cfg' = [ vuart |-> << >>, ivshmem |-> << >> ]
    /\ pci_result' = "None"
    /\ vuart_result' = "None"
    /\ ivshmem_result' = "None"
    /\ result' = << >>
    /\ ret' = "None"
    /\ exc' = ""
    /\ UNCHANGED << asoundVars, inputVars, loVars, parseVars, native_, vuart_vbdfs,
                    ivshmem_vbdfs >>

NextRepeat ==
    \/ Next
    \/ ValidateAgain

SpecRepeat == InitRepeat /\ [][NextRepeat]_vars

-----------------------------------------------------------------------------
(* validate_load_order called on its own *)

\* the two-character device fields of the devices 0..31, in both cases
DeviceTexts ==
    { << HexDigits[(d \div 16) + 1], HexDigits[(d % 16) + 1] >> : d \in 0..31 }
    \cup { << HexDigits[(d \div 16) + 1], UpperHex[(d % 16) - 9] >> :
           d \in { x \in 0..31 : x % 16 >= 10 } }

\* addresses of a two-digit and of a one-digit bus, and the text of no address
LoadOrderVbdfs ==
    { << "0", "0", ":" >> \o t \o << ".", "0" >> : t \in DeviceTexts }
    \cup { << "0", ":" >> \o t \o << ".", "0" >> : t \in DeviceTexts }
    \cup { << >> }

LoadOrderNames == { vms[i].name : i \in 1..Len(vms) } \cup { UnknownVM }

InitLoadOrder ==
    /\ board = << >>
    /\ debug = << >>
    /\ vuart_connections = << >>
    /\ ivshmem_regions = << >>
    /\ native_ = << >>
    /\ vuart_vbdfs = << >>
    /\ ivshmem_vbdfs = << >>
    /\ pc = "idle"
    /\ gi = 0
    /\ ei = 0
    /\ vm_cfg = [ vuart |-> << >>, ivshmem |-> << >> ]
    /\ pci_result = "None"
    /\ vuart_result = "None"
    /\ ivshmem_result = "None"
    /\ result = << >>
    /\ ret = "None"
    /\ exc = ""
    /\ lo_pc = "call"
    /\ lo_name \in LoadOrderNames
    /\ lo_vbdf \in LoadOrderVbdfs
    /\ lo_out = ""
    /\ NoParseCall
    /\ FirstCall
    /\ NoAsoundCall

\* validate_load_order(self.scenario_root, lo_name, lo_vbdf)
CallLoadOrder ==
    /\ lo_pc = "call"
    /\ lo_out' = validate_load_order(vms, lo_name, lo_vbdf)
    /\ lo_pc' = "returned"
    /\ UNCHANGED << asoundVars, callVars, inputVars, parseVars, native_, vuart_vbdfs, ivshmem_vbdfs, pc, gi,
                    ei, vm_cfg, pci_result, vuart_result, ivshmem_result, result, ret,
                    exc, lo_name, lo_vbdf >>

NextLoadOrder == CallLoadOrder

SpecLoadOrder == InitLoadOrder /\ [][NextLoadOrder]_vars

-----------------------------------------------------------------------------
(* validate_ called on its own, and again on what it returned *)

\* what precedes the bus: nothing, blanks, text that is no address, a hex digit
ParseLeading ==
    { << >>, << " " >>, << "\t", " " >>, << "z" >>, << "x", " " >>, << "a" >> }

ParseBuses == { << >>, << "0" >>, << "F" >>, << "0", "0" >>, << "a", "F" >>,
                << "0", "0", "0" >>, << "g" >> }

\* what follows the function digit: nothing, blanks, a description, a digit
ParseTrailing ==
    { << >>, << " " >>, << " ", "V", "G", "A" >>, << "0" >>, << "\n" >> }

ParseTexts ==
    { l \o b \o << c >> \o << d1, d2 >> \o << "." >> \o << f >> \o t :
        l \in ParseLeading, b \in ParseBuses, c \in { ":", ";" },
        d1 \in { "0", "1", "2" }, d2 \in { "0", "f", "A", "g" },
        f \in { "0", "7", "8" }, t \in ParseTrailing }

InitParse ==
    /\ board = << >>
    /\ debug = << >>
    /\ vuart_connections = << >>
    /\ ivshmem_regions = << >>
    /\ native_ = << >>
    /\ vuart_vbdfs = << >>
    /\ ivshmem_vbdfs = << >>
    /\ pc = "idle"
    /\ gi = 0
    /\ ei = 0
    /\ vm_cfg = [ vuart |-> << >>, ivshmem |-> << >> ]
    /\ pci_result = "None"
    /\ vuart_result = "None"
    /\ ivshmem_result = "None"
    /\ result = << >>
    /\ ret = "None"
    /\ exc = ""
    /\ NoLoadOrderCall
    /\ FirstCall
    /\ NoAsoundCall
    /\ parse_pc = "call"
    /\ parse_bdf \in ParseTexts
    /\ parse_m1 = << >>
    /\ parse_m2 = << >>

\* m1 = validate_(parse_bdf)
CallValidate ==
    /\ parse_pc = "call"
    /\ parse_m1' = validate_(parse_bdf)
    /\ parse_pc' = "returned"
    /\ UNCHANGED << asoundVars, callVars, inputVars, loVars, native_, vuart_vbdfs, ivshmem_vbdfs, pc, gi, ei,
                    vm_cfg, pci_result, vuart_result, ivshmem_result, result, ret, exc,
                    parse_bdf, parse_m2 >>

\* validate_(m1), as a caller that hands a parsed address on does
CallValidateAgain ==
    /\ parse_pc = "returned"
    /\ parse_m2' = validate_(parse_m1)
    /\ parse_pc' = "reparsed"
    /\ UNCHANGED << asoundVars, callVars, inputVars, loVars, native_, vuart_vbdfs, ivshmem_vbdfs, pc, gi, ei,
                    vm_cfg, pci_result, vuart_result, ivshmem_result, result, ret, exc,
                    parse_bdf, parse_m1 >>

NextParse ==
    \/ CallValidate
    \/ CallValidateAgain

SpecParse == InitParse /\ [][NextParse]_vars

-----------------------------------------------------------------------------
(* update_asound of misc/packaging/update_usb_port_sound_card.py *)

\* "sub in line"
Contains(line, sub) ==
    \E i \in 1..(Len(line) - Len(sub) + 1) : SubSeq(line, i, i + Len(sub) - 1) = sub

RECURSIVE SplitOnSpace(_, _)
\* s.split(' ') : cur is the field being read
SplitOnSpace(s, cur) ==
    IF s = << >> THEN << cur >>
    ELSE IF Head(s) = " " THEN << cur >> \o SplitOnSpace(Tail(s), << >>)
    ELSE SplitOnSpace(Tail(s), Append(cur, Head(s)))

\* [x for x in line.strip().split(' ') if x]
Fields(line) == SelectSeq(SplitOnSpace(strip(line), << >>), LAMBDA x : x # << >>)

RECURSIVE Remove(_, _)
\* s.replace(c, '') for a character c
Remove(s, c) ==
    IF s = << >> THEN << >>
    ELSE (IF Head(s) = c THEN << >> ELSE << Head(s) >>) \o Remove(Tail(s), c)

RECURSIVE Interleave(_, _)
\* s.replace('', new): new before every character and at the end
Interleave(s, new) ==
    IF s = << >> THEN new ELSE new \o << Head(s) >> \o Interleave(Tail(s), new)

RECURSIVE ReplaceFrom(_, _, _)
\* s.replace(old, new) for a non-empty old: leftmost occurrences, not overlapping
ReplaceFrom(s, old, new) ==
    IF Len(s) < Len(old) THEN s
    ELSE IF SubSeq(s, 1, Len(old)) = old
         THEN new \o ReplaceFrom(SubSeq(s, Len(old) + 1, Len(s)), old, new)
         ELSE << Head(s) >> \o ReplaceFrom(Tail(s), old, new)

\* str.replace
Replace(s, old, new) == IF old = << >> THEN Interleave(s, new) ELSE ReplaceFrom(s, old, new)

Usb_dmixer == << "u", "s", "b", "_", "d", "m", "i", "x", "e", "r" >>
Usb_dsnooper == << "u", "s", "b", "_", "d", "s", "n", "o", "o", "p", "e", "r" >>
Slave == << "s", "l", "a", "v", "e" >>

\* "hw:" + usb_card + ',0'
Dev(card) == << "h", "w", ":" >> \o card \o << ",", "0" >>

\* the most lines /etc/asound.conf has
MaxLines == 4

\* lines of /etc/asound.conf, each with its newline: a dmixer plugin, a slave
\* block, a device, a closing brace, a device of two quotes, and a line with
\* the dsnooper plugin and the word slave
ConfLines ==
    { << "p", "c", "m", ".", "u", "s", "b", "_", "d", "m", "i", "x", "e", "r", " ", "{", "\n" >>,
      << "s", "l", "a", "v", "e", " ", "{", "\n" >>,
      << " ", "p", "c", "m", " ", "\"", "h", "w", ":", "0", ",", "0", "\"", "\n" >>,
      << "}", "\n" >>,
      << "p", "c", "m", " ", "\"", "\"", "\n" >>,
      << "u", "s", "b", "_", "d", "s", "n", "o", "o", "p", "e", "r", " ", "s", "l", "a", "v", "e", "\n" >> }

ConfFiles == UNION { SeqsOfLen(ConfLines, n) : n \in 1..MaxLines }

UsbCards == { << "U" >> }

InitAsound ==
    /\ board = << >>
    /\ debug = << >>
    /\ vuart_connections = << >>
    /\ ivshmem_regions = << >>
    /\ native_ = << >>
    /\ vuart_vbdfs = << >>
    /\ ivshmem_vbdfs = << >>
    /\ pc = "idle"
    /\ gi = 0
    /\ ei = 0
    /\ vm_cfg = [ vuart |-> << >>, ivshmem |-> << >> ]
    /\ pci_result = "None"
    /\ vuart_result = "None"
    /\ ivshmem_result = "None"
    /\ result = << >>
    /\ ret = "None"
    /\ exc = ""
    /\ NoLoadOrderCall
    /\ NoParseCall
    /\ FirstCall
    /\ ua_pc = "loop"
    /\ f_conf \in ConfFiles
    /\ usb_card \in UsbCards
    /\ usb_plug = 0
    /\ ua_i = 0
    /\ data = << >>
    /\ plug_at = << >>
    /\ asound_conf = Flat(f_conf)

validateVars ==
    << inputVars, loVars, parseVars, callVars, native_, vuart_vbdfs, ivshmem_vbdfs, pc,
       gi, ei, vm_cfg, pci_result, vuart_result, ivshmem_result, result, ret, exc >>

\* one iteration of "for line in f_conf"; fields[1] raises IndexError
ReadLine ==
    /\ ua_pc = "loop"
    /\ ua_i < Len(f_conf)
    /\ LET line == f_conf[ua_i + 1]
           fields == Fields(line)
           prev == Remove(Remove(fields[2], "\""), "\"")
       IN  /\ plug_at' = Append(plug_at, usb_plug)
           /\ ua_i' = ua_i + 1
           /\ CASE usb_plug = 0 ->
                     /\ usb_plug' = IF Contains(line, Usb_dmixer) \/ Contains(line, Usb_dsnooper)
                                    THEN 1 ELSE 0
                     /\ data' = data \o line
                     /\ UNCHANGED ua_pc
                [] usb_plug = 1 ->
                     /\ usb_plug' = IF Contains(line, Slave) THEN 2 ELSE 1
                     /\ data' = data \o line
                     /\ UNCHANGED ua_pc
                [] OTHER ->
                     IF Len(fields) < 2
                     THEN /\ ua_pc' = "raised"
                          /\ UNCHANGED << usb_plug, data >>
                     ELSE /\ usb_plug' = 0
                          /\ data' = data \o Replace(line, prev, Dev(usb_card))
                          /\ UNCHANGED ua_pc
    /\ UNCHANGED << validateVars, f_conf, usb_card, asound_conf >>

\* open("/etc/asound.conf", "w") and new.write(data)
WriteConf ==
    /\ ua_pc = "loop"
    /\ ua_i = Len(f_conf)
    /\ asound_conf' = data
    /\ ua_pc' = "written"
    /\ UNCHANGED << validateVars, f_conf, usb_card, usb_plug, ua_i, data, plug_at >>

NextAsound ==
    \/ ReadLine
    \/ WriteConf

SpecAsound == InitAsound /\ [][NextAsound]_vars

-----------------------------------------------------------------------------
(* What the claims speak of, read off the board and scenario documents *)

Cats == { "vuart", "ivshmem" }

Other(cat) == IF cat = "vuart" THEN "ivshmem" ELSE "vuart"

GroupsOf(cat) == IF cat = "vuart" THEN vuart_connections ELSE ivshmem_regions

EndpointsOf(cat) == Flat(GroupsOf(cat))

ResultOf(cat) == IF cat = "vuart" THEN vuart_result ELSE ivshmem_result

Configured(cat) == GroupsOf(cat) # << >>

\* the address an endpoint carries, "" when its text holds none
AddressOf(p) == validate_(p.vbdf)

IsAddress(x) == x # << >> /\ validate_(x) = x

\* the device field dd of an address bb:dd.f or b:dd.f
DeviceOf(a) ==
    LET c == CHOOSE i \in 1..Len(a) : a[i] = ":"
    IN  16 * HexVal(a[c + 1]) + HexVal(a[c + 2])

KnownVm(n) == \E i \in 1..Len(vms) : vms[i].name = n

LoadOrderOf(n) == vms[CHOOSE i \in 1..Len(vms) : vms[i].name = n].load_order

\* the native device set: the board's addresses without 00:00.0
NativeSet == { validate_(board[i]) : i \in 1..Len(board) } \ { << >>, Bdf_00_00_0 }

\* what the debug-UART text parses to: nothing, an address, or ""
DebugSet == IF debug = << >> THEN {} ELSE { validate_(debug[1]) }

Allowed(p) == validate_load_order(vms, p.vm_name, AddressOf(p)) = "True"

HasNativeAddress(cat) ==
    \E i \in 1..Len(EndpointsOf(cat)) : AddressOf(EndpointsOf(cat)[i]) \in NativeSet

\* every endpoint of the category was recorded in vm_cfg: the loops ran to the end
AllRecorded(cat) == Len(Values(vm_cfg[cat])) = Len(EndpointsOf(cat))

LoadOrderFails(cat) ==
    \E i \in 1..Len(EndpointsOf(cat)) : ~Allowed(EndpointsOf(cat)[i])

SameVmTwice(cat) ==
    \E i, j \in 1..Len(EndpointsOf(cat)) :
        /\ i < j
        /\ EndpointsOf(cat)[i].vm_name = EndpointsOf(cat)[j].vm_name
        /\ AddressOf(EndpointsOf(cat)[i]) = AddressOf(EndpointsOf(cat)[j])

ReservedHit(cat) ==
    \E i \in 1..Len(EndpointsOf(cat)) :
        AddressOf(EndpointsOf(cat)[i]) \in NativeSet \cup DebugSet

SharedAcrossVms(cat) ==
    \E i, j \in 1..Len(EndpointsOf(cat)) :
        /\ EndpointsOf(cat)[i].vm_name # EndpointsOf(cat)[j].vm_name
        /\ AddressOf(EndpointsOf(cat)[i]) = AddressOf(EndpointsOf(cat)[j])
        /\ AddressOf(EndpointsOf(cat)[i]) # << >>
        /\ Allowed(EndpointsOf(cat)[i])
        /\ Allowed(EndpointsOf(cat)[j])

Terminated == pc \in { "done", "raised" }

RECURSIVE RunLoop(_, _)
\* the loops of validate_vuart / validate_ivshmem over the endpoints eps
RunLoop(cfg, eps) ==
    IF eps = << >> THEN [ kind |-> "next", cfg |-> cfg, exc |-> "" ]
    ELSE LET r == ProcessEndpoint(cfg, Head(eps))
         IN  IF r.kind # "next" THEN r ELSE RunLoop(r.cfg, Tail(eps))

\* what validate_vuart / validate_ivshmem of a fresh instance returns for a
\* configured category of the endpoints eps, "ValueError" when it raises
RunCategory(eps) ==
    LET r == RunLoop(<< >>, eps)
    IN  CASE r.kind = "raise" -> r.exc
          [] r.kind = "return" -> "False"
          [] OTHER -> CrossCheck(Values(r.cfg), native(<< >>, board), debug)

\* eps without its i-th endpoint
Without(eps, i) == SubSeq(eps, 1, i - 1) \o SubSeq(eps, i + 1, Len(eps))

-----------------------------------------------------------------------------
(* The claims *)

\* C1: a verdict of True certifies that no endpoint of a configured category
\* carries a native address; a category with an endpoint that carries one never
\* gets the result True, and has the result False in the report.
C1_NativeSoundness ==
    /\ (pc = "done" /\ ret = "True") =>
          \A cat \in Cats : \A i \in 1..Len(EndpointsOf(cat)) :
              AddressOf(EndpointsOf(cat)[i]) \notin NativeSet
    /\ \A cat \in Cats : HasNativeAddress(cat) => ResultOf(cat) # "True"
    /\ pc = "done" => \A cat \in Cats : HasNativeAddress(cat) => ResultOf(cat) = "False"

\* C1 witness: a category whose endpoints all pass the loops, one of them on a
\* native address, reported False.
C1_Witness ==
    /\ pc = "done"
    /\ \E cat \in Cats :
          HasNativeAddress(cat) /\ AllRecorded(cat) /\ ResultOf(cat) = "False"
    /\ ret = "False"

C3_CrossCategoryCollision ==
    pc = "done" =>
        ((\E i \in 1..Len(EndpointsOf("vuart")), j \in 1..Len(EndpointsOf("ivshmem")) :
            /\ EndpointsOf("vuart")[i].vm_name = EndpointsOf("ivshmem")[j].vm_name
            /\ AddressOf(EndpointsOf("vuart")[i]) = AddressOf(EndpointsOf("ivshmem")[j])
            /\ AddressOf(EndpointsOf("vuart")[i]) # << >>
            /\ KnownVm(EndpointsOf("vuart")[i].vm_name))
         => ret = "False")

\* C4: for a POST_LAUNCHED_VM an address bb:dd.f is accepted iff its device
\* field is at least 3 and below 30.
C4_PostLaunchedRange ==
    (/\ lo_pc = "returned"
     /\ KnownVm(lo_name)
     /\ LoadOrderOf(lo_name) = "POST_LAUNCHED_VM"
     /\ IsAddress(lo_vbdf)
     /\ Len(lo_vbdf) = 7)
    => (lo_out = "True" <=> (DeviceOf(lo_vbdf) >= 3 /\ DeviceOf(lo_vbdf) < 30))

\* C5: for a VM of the scenario that is not a POST_LAUNCHED_VM every address is
\* accepted.
C5_OtherLoadOrdersAcceptAll ==
    (/\ lo_pc = "returned"
     /\ KnownVm(lo_name)
     /\ LoadOrderOf(lo_name) # "POST_LAUNCHED_VM"
     /\ IsAddress(lo_vbdf))
    => lo_out = "True"

\* C5 witness: a pre-launched or service VM is allowed a device below 3 or of
\* 30 and above.
C5_Witness ==
    /\ lo_pc = "returned"
    /\ KnownVm(lo_name)
    /\ LoadOrderOf(lo_name) # "POST_LAUNCHED_VM"
    /\ IsAddress(lo_vbdf)
    /\ (DeviceOf(lo_vbdf) < 3 \/ DeviceOf(lo_vbdf) >= 30)
    /\ lo_out = "True"

\* C6: an endpoint that names a VM the scenario does not have makes its
\* category False, and validate() still returns a report in which the other
\* category has the result it has on its own.
C6_UnknownVmFailsCategoryOnly ==
    Terminated =>
        \A cat \in Cats :
            (\E i \in 1..Len(EndpointsOf(cat)) : ~KnownVm(EndpointsOf(cat)[i].vm_name))
            => /\ pc = "done"
               /\ ResultOf(cat) = "False"
               /\ Configured(Other(cat)) =>
                     ResultOf(Other(cat)) = RunCategory(EndpointsOf(Other(cat)))

\* C7: a VM given one address by two endpoints of a category makes the category
\* False, nothing is recorded from the second of them on, and nothing but a
\* failed load-order check or a value already recorded for the same VM ends
\* the loops.
C7_SameVmSameAddressTwice ==
    Terminated =>
        \A cat \in Cats :
            /\ \A i, j \in 1..Len(EndpointsOf(cat)) :
                  (/\ i < j
                   /\ EndpointsOf(cat)[i].vm_name = EndpointsOf(cat)[j].vm_name
                   /\ AddressOf(EndpointsOf(cat)[i]) = AddressOf(EndpointsOf(cat)[j])
                   /\ AddressOf(EndpointsOf(cat)[i]) # << >>)
                  => /\ pc = "done"
                     /\ ResultOf(cat) = "False"
                     /\ Len(Values(vm_cfg[cat])) < j
            /\ (pc = "done" /\ Configured(cat) /\ ~LoadOrderFails(cat) /\ ~SameVmTwice(cat))
               => AllRecorded(cat)

\* C8: a category without groups has no result and no key in the report, and
\* the verdict is the AND of the remaining keys.
C8_UnconfiguredCategoryOmitted ==
    pc = "done" =>
        \A cat \in Cats : ~Configured(cat) =>
            /\ ResultOf(cat) = "None"
            /\ \A i \in 1..Len(result) : result[i].k # cat
            /\ ret = PyBool(/\ pci_result = "True"
                            /\ Configured(Other(cat)) => ResultOf(Other(cat)) = "True")

\* C8 witness: vuart is not configured, ivshmem is and passes, the verdict is True.
C8_Witness ==
    /\ pc = "done"
    /\ ~Configured("vuart")
    /\ Configured("ivshmem")
    /\ result = << [ k |-> "pci", v |-> "True" ], [ k |-> "ivshmem", v |-> "True" ] >>
    /\ ret = "True"

\* C9: the report holds pci always and a category iff it is configured, each
\* with its result, and the verdict is True iff every value in it is True.
C9_VerdictIsAndOfReport ==
    pc = "done" =>
        /\ { result[i].k : i \in 1..Len(result) }
              = { "pci" } \cup { cat \in Cats : Configured(cat) }
        /\ \A i \in 1..Len(result) :
              result[i].v = (IF result[i].k = "pci" THEN pci_result
                             ELSE ResultOf(result[i].k))
        /\ \A i \in 1..Len(result) : result[i].v \in { "True", "False" }
        /\ ret = PyBool(\A i \in 1..Len(result) : result[i].v = "True")

\* C9 witness: all three keys are in the report, one value is False and the
\* last is True, and the verdict is False.
C9_Witness ==
    /\ pc = "done"
    /\ Len(result) = 3
    /\ result[2].v = "False"
    /\ result[3].v = "True"
    /\ ret = "False"

\* C10: an endpoint whose text holds no address is skipped: the category's
\* result is the result of the category without that endpoint.
C10_UnparsableEndpointSkipped ==
    Terminated =>
        \A cat \in Cats : \A i \in 1..Len(EndpointsOf(cat)) :
            AddressOf(EndpointsOf(cat)[i]) = << >> =>
                /\ pc = "done"
                /\ ResultOf(cat) = RunCategory(Without(EndpointsOf(cat), i))

\* C11: a text that holds no address never ends validate() with an exception:
\* no run raises, whatever VM the endpoint with that text belongs to.
C11_MalformedAddressNotFatal == pc # "raised" /\ exc = ""

\* a VM has two endpoints in the category that carry the same address
ParsedSameVmTwice(cat) ==
    \E i, j \in 1..Len(EndpointsOf(cat)) :
        /\ i < j
        /\ EndpointsOf(cat)[i].vm_name = EndpointsOf(cat)[j].vm_name
        /\ AddressOf(EndpointsOf(cat)[i]) = AddressOf(EndpointsOf(cat)[j])
        /\ AddressOf(EndpointsOf(cat)[i]) # << >>

\* an endpoint of the category carries a native address or the debug-UART address
ParsedReservedHit(cat) ==
    \E i \in 1..Len(EndpointsOf(cat)) :
        /\ AddressOf(EndpointsOf(cat)[i]) # << >>
        /\ AddressOf(EndpointsOf(cat)[i]) \in NativeSet \cup DebugSet

\* C12: texts that hold no address take part in no collision check: a category
\* is False only for a failed load-order check, a VM with one address twice, or
\* an address that is native or the debug UART's, and pci is False only for an
\* address that is both native and the debug UART's.
C12_AbsentAddressesNeverCollide ==
    pc = "done" =>
        /\ \A cat \in Cats : ResultOf(cat) = "False" =>
              (LoadOrderFails(cat) \/ ParsedSameVmTwice(cat) \/ ParsedReservedHit(cat))
        /\ pci_result = "False" => \E a \in NativeSet \cap DebugSet : a # << >>

\* every address a line of the board holds, the host bridge included
BoardAddresses == { validate_(board[i]) : i \in 1..Len(board) } \ { << >> }

HasEndpointAt(cat, a) ==
    \E i \in 1..Len(EndpointsOf(cat)) : AddressOf(EndpointsOf(cat)[i]) = a

\* C13: 00:00.0 is never in the native list, whatever the board lists; pci is
\* False only for a debug-UART address the board lists other than 00:00.0, and
\* a category is False only for a failed load-order check, a VM with one value
\* twice, or a value that is the debug UART's or a board address other than
\* 00:00.0.
C13_HostBridgeNeverNative ==
    /\ Bdf_00_00_0 \notin Range(native_)
    /\ pc = "done" =>
          /\ pci_result = "False" =>
                (BoardAddresses \ { Bdf_00_00_0 }) \cap DebugSet # {}
          /\ \A cat \in Cats : ResultOf(cat) = "False" =>
                \/ LoadOrderFails(cat)
                \/ SameVmTwice(cat)
                \/ \E a \in (BoardAddresses \ { Bdf_00_00_0 }) \cup DebugSet :
                      HasEndpointAt(cat, a)

\* C13 witness: the board lists 00:00.0, a VM that is not post-launched is
\* given 00:00.0, and its category and pci are True.
C13_Witness ==
    /\ pc = "done"
    /\ Bdf_00_00_0 \in BoardAddresses
    /\ \E cat \in Cats :
          /\ \E i \in 1..Len(EndpointsOf(cat)) :
                /\ AddressOf(EndpointsOf(cat)[i]) = Bdf_00_00_0
                /\ LoadOrderOf(EndpointsOf(cat)[i].vm_name) # "POST_LAUNCHED_VM"
          /\ ResultOf(cat) = "True"
    /\ pci_result = "True"

\* C14: a debug-UART address that the board also lists as a native device does
\* not make pci False, and a category with an endpoint on the debug-UART
\* address is False.
C14_DebugUartInNativeExcluded ==
    pc = "done" =>
        /\ (\E a \in NativeSet \cap DebugSet : a # << >>) => pci_result = "True"
        /\ \A cat \in Cats :
              (\E a \in DebugSet : a # << >> /\ HasEndpointAt(cat, a))
              => ResultOf(cat) = "False"

\* the addresses the endpoints of a category carry
AddressesOf(cat) ==
    { AddressOf(EndpointsOf(cat)[i]) : i \in 1..Len(EndpointsOf(cat)) } \ { << >> }

\* the debug-UART address, when the scenario configures one
DebugAddress == DebugSet \ { << >> }

\* C15: a configured category whose endpoints all passed the load-order check
\* and the per-VM duplicate check is True iff none of its addresses is native
\* or is the debug-UART address.
C15_CrossCheck ==
    pc = "done" =>
        \A cat \in Cats : (Configured(cat) /\ AllRecorded(cat)) =>
            (ResultOf(cat) = "True"
                <=> AddressesOf(cat) \cap (NativeSet \cup DebugAddress) = {})

\* the board and the vuart connection of a post-launched VM on 00:05.0 and 00:06.0
EndToEndScenario ==
    /\ board = << Bdf_00_00_0, Bdf_00_02_0, Bdf_00_1f_0 >>
    /\ debug = << >>
    /\ vuart_connections = << << [ vm_name |-> "VM2", vbdf |-> Bdf_00_05_0 ],
                                 [ vm_name |-> "VM2", vbdf |-> Bdf_00_06_0 ] >> >>
    /\ ivshmem_regions = << >>

\* C16: without a configured debug UART pci is True for every board and a
\* category is False only for a failed load-order check, a VM with one value
\* twice or a native address; the board 00:00.0, 00:02.0, 00:1f.0 with a
\* post-launched VM on 00:05.0 and 00:06.0 gives pci and vuart True, no
\* ivshmem key and the verdict True.
C16_NoDebugUart ==
    (debug = << >> /\ pc = "done") =>
        /\ pci_result = "True"
        /\ \A cat \in Cats : ResultOf(cat) = "False" =>
              (LoadOrderFails(cat) \/ SameVmTwice(cat) \/ HasNativeAddress(cat))
        /\ EndToEndScenario =>
              /\ result = << [ k |-> "pci", v |-> "True" ], [ k |-> "vuart", v |-> "True" ] >>
              /\ ret = "True"

\* C16 witness: the end-to-end scenario has run and the verdict is True.
C16_Witness == pc = "done" /\ EndToEndScenario /\ ret = "True"

\* an endpoint of the category lacks its vm_name or its vbdf
StructurallyInvalid(cat) ==
    \E i \in 1..Len(EndpointsOf(cat)) :
        Lacks(EndpointsOf(cat)[i], "vm_name") \/ Lacks(EndpointsOf(cat)[i], "vbdf")

\* C17: an endpoint that lacks its VM name or its address makes its category
\* False, validate() still returns a report, and the other category, when
\* configured, has a result of its own in it.
C17_InvalidGroupFailsCategoryOnly ==
    Terminated =>
        \A cat \in Cats : StructurallyInvalid(cat) =>
            /\ pc = "done"
            /\ exc = ""
            /\ ResultOf(cat) = "False"
            /\ Configured(Other(cat)) => ResultOf(Other(cat)) \in { "True", "False" }

\* x is of the canonical shape: 1 or 2 hex digits, ':', 0 or 1, a hex digit,
\* '.', a digit 0 to 7
IsShape(x) ==
    /\ Len(x) \in { 6, 7 }
    /\ \A i \in 1..(Len(x) - 5) : IsHex(x[i])
    /\ x[Len(x) - 4] = ":"
    /\ x[Len(x) - 3] \in { "0", "1" }
    /\ IsHex(x[Len(x) - 2])
    /\ x[Len(x) - 1] = "."
    /\ x[Len(x)] \in { "0", "1", "2", "3", "4", "5", "6", "7" }

\* the lengths of the prefixes of t that are of the canonical shape (one at most)
ShapePrefixes(t) == { n \in { 6, 7 } : n <= Len(t) /\ IsShape(SubSeq(t, 1, n)) }

\* t is the canonical shape followed by anything
MatchesShape(t) == ShapePrefixes(t) # {}

\* C18: for a text that, trimmed, is the canonical shape followed by anything,
\* validate_ returns that prefix of the trimmed text, character for character.
C18_ReturnsShapePrefix ==
    parse_pc \in { "returned", "reparsed" } =>
        LET t == strip(parse_bdf)
        IN  MatchesShape(t) =>
                /\ Cardinality(ShapePrefixes(t)) = 1
                /\ parse_m1 = SubSeq(t, 1, CHOOSE n \in ShapePrefixes(t) : TRUE)

\* C18 witness: a text with a blank before and a description after an address
\* with upper-case digits was parsed to the address alone.
C18_Witness ==
    /\ parse_pc = "returned"
    /\ parse_bdf = << " ", "a", "F", ":", "0", "A", ".", "7", " ", "V", "G", "A" >>
    /\ parse_m1 = << "a", "F", ":", "0", "A", ".", "7" >>

\* C19: for a text that matches the canonical shape, validate_ returns an
\* address, and validate_ of that address is the address again.
C19_ParseIdempotent ==
    (parse_pc = "reparsed" /\ MatchesShape(strip(parse_bdf))) =>
        /\ IsShape(parse_m1)
        /\ parse_m2 = parse_m1

\* C19 witness: an address followed by a digit was parsed and parsed again.
C19_Witness ==
    /\ parse_pc = "reparsed"
    /\ MatchesShape(strip(parse_bdf))
    /\ Len(strip(parse_bdf)) > Len(parse_m1)
    /\ parse_m1 # << >>
    /\ parse_m2 = parse_m1

\* C20: for a text that, trimmed, is not the canonical shape followed by
\* anything, validate_ returns no address.
C20_NoMatchNoAddress ==
    parse_pc \in { "returned", "reparsed" } =>
        (~MatchesShape(strip(parse_bdf)) => parse_m1 = << >>)

\* what a pass over the category returns, as a function of the documents alone
ExpectedResult(cat) ==
    IF Configured(cat) THEN RunCategory(EndpointsOf(cat)) ELSE "None"

\* what validate_pci returns, as a function of the documents alone
ExpectedPci == PyBool(NativeSet \cap DebugSet = {})

Exceptions == { "ValueError", "IndexError" }

\* C21: the report is a function of the board and the scenario: the keys are
\* pci, then vuart and ivshmem where configured, in that order, the values are
\* what the documents determine, and the verdict is their conjunction; whether
\* validate() returns at all is determined by the documents too.
C21_ReportIsFunctionOfInput ==
    /\ pc = "raised" =>
          (ExpectedResult("vuart") \in Exceptions \/ ExpectedResult("ivshmem") \in Exceptions)
    /\ pc = "done" =>
          /\ result =
                << [ k |-> "pci", v |-> ExpectedPci ] >>
                \o (IF Configured("vuart")
                    THEN << [ k |-> "vuart", v |-> ExpectedResult("vuart") ] >> ELSE << >>)
                \o (IF Configured("ivshmem")
                    THEN << [ k |-> "ivshmem", v |-> ExpectedResult("ivshmem") ] >> ELSE << >>)
          /\ ret = PyBool(/\ ExpectedPci = "True"
                          /\ ExpectedResult("vuart") \in { "None", "True" }
                          /\ ExpectedResult("ivshmem") \in { "None", "True" })

\* C21 witness: a report with the three keys in order, with different values.
C21_Witness ==
    /\ pc = "done"
    /\ Len(result) = 3
    /\ << result[1].k, result[2].k, result[3].k >> = << "pci", "vuart", "ivshmem" >>
    /\ result[2].v # result[3].v

\* validate() has not entered the pass over the category yet
NotYetValidated(cat) ==
    pc \in (IF cat = "vuart" THEN { "validate", "vuart" }
            ELSE { "validate", "vuart", "vuart_loop", "ivshmem" })

InLoop(cat) == pc = (IF cat = "vuart" THEN "vuart_loop" ELSE "ivshmem_loop")

\* an exception left the pass over vuart
VuartAborted == pc = "raised" /\ Configured("vuart") /\ vuart_result = "None"

\* the state of a category in the state machine of the specification;
\* "Aborted" is a pass that an exception left
CatState(cat) ==
    CASE NotYetValidated(cat) -> "Unvalidated"
      [] InLoop(cat) -> "Validating"
      [] pc = "raised" /\ cat = "vuart" /\ VuartAborted -> "Aborted"
      [] pc = "raised" /\ cat = "ivshmem" ->
            IF VuartAborted THEN "Unvalidated" ELSE "Aborted"
      [] OTHER -> CASE ResultOf(cat) = "None" -> "NotConfigured"
                    [] ResultOf(cat) = "False" -> "Failed"
                    [] OTHER -> "Passed"

CatTransitions ==
    { << "Unvalidated", "NotConfigured" >>, << "Unvalidated", "Validating" >>,
      << "Validating", "Validating" >>, << "Validating", "Failed" >>,
      << "Validating", "Passed" >> }

\* one step of validate() as the state machine of a category allows it
CatStep(cat) ==
    /\ CatState(cat)' # CatState(cat) => << CatState(cat), CatState(cat)' >> \in CatTransitions
    /\ (CatState(cat) = "Validating" /\ CatState(cat)' = "Validating") =>
          Len(Values(vm_cfg'[cat])) = Len(Values(vm_cfg[cat])) + 1
    /\ (CatState(cat) = "Validating" /\ CatState(cat)' = "Passed") => AllRecorded(cat)
    /\ CatState(cat) \in { "NotConfigured", "Failed", "Passed" } =>
          /\ CatState(cat)' = CatState(cat)
          /\ vm_cfg'[cat] = vm_cfg[cat]

\* C22: every category goes Unvalidated -> NotConfigured, or Unvalidated ->
\* Validating -> Failed or Passed, and ends in one of the three terminal
\* states; an endpoint that fails a check makes the category Failed in that
\* step, no endpoint is processed after it, and a terminal state is never left.
C22_CategoryStateMachine ==
    /\ [](Terminated =>
            \A cat \in Cats : CatState(cat) \in { "NotConfigured", "Failed", "Passed" })
    /\ [][\A cat \in Cats : CatStep(cat)]_vars

\* a and b are different texts that are equal in lower case
DifferInCaseOnly(a, b) == a # b /\ Lower(a) = Lower(b)

\* C23: addresses are compared as the parsed texts, case included: pci is
\* False iff a native address is the debug-UART address character for
\* character, and a category is False iff an endpoint fails the load-order
\* check, a VM has the same text twice, or an endpoint's text is a native or
\* the debug-UART text; texts that differ in case only never collide.
C23_NoCaseNormalization ==
    pc = "done" =>
        /\ pci_result = PyBool(NativeSet \cap DebugSet = {})
        /\ \A cat \in Cats : Configured(cat) =>
              (ResultOf(cat) = "False"
                  <=> (LoadOrderFails(cat) \/ SameVmTwice(cat) \/ ReservedHit(cat)))

\* C23 witness: an endpoint on an address that differs in case only from a
\* native address, in a category that is True, and a debug-UART address that
\* differs in case only from a native address, with pci True.
C23_Witness ==
    /\ pc = "done"
    /\ \E cat \in Cats :
          /\ ResultOf(cat) = "True"
          /\ \E a \in AddressesOf(cat), n \in NativeSet : DifferInCaseOnly(a, n)
    /\ \E d \in DebugSet, n \in NativeSet : DifferInCaseOnly(d, n)
    /\ pci_result = "True"

\* the address with the bus written in two digits
TwoDigitBus(a) == IF Len(a) = 6 THEN << "0" >> \o a ELSE a

\* C24: for a POST_LAUNCHED_VM the load-order check of an address returns True
\* or False, and an address with a one-digit bus gets the decision of the
\* address with the same device field and a two-digit bus.
C24_BusWidthIrrelevant ==
    (/\ lo_pc = "returned"
     /\ KnownVm(lo_name)
     /\ LoadOrderOf(lo_name) = "POST_LAUNCHED_VM"
     /\ IsAddress(lo_vbdf))
    => /\ lo_out \in { "True", "False" }
       /\ lo_out = validate_load_order(vms, lo_name, TwoDigitBus(lo_vbdf))

\* the instance list of a category
ListOf(cat) == IF cat = "vuart" THEN vuart_vbdfs ELSE ivshmem_vbdfs

\* the pass over the category has returned
Returned(cat) == CatState(cat) \in { "NotConfigured", "Failed", "Passed" }

\* C25: the result of a category is what its own groups, the VMs, the board
\* and the debug UART determine, whatever the groups of the other category
\* are; before its pass a category has no data, and its list and its vm_cfg
\* never hold a value of the other category's endpoints alone.
C25_CategoriesDoNotInterfere ==
    \A cat \in Cats :
        /\ Returned(cat) => ResultOf(cat) = ExpectedResult(cat)
        /\ NotYetValidated(cat) =>
              ListOf(cat) = << >> /\ vm_cfg[cat] = << >> /\ ResultOf(cat) = "None"
        /\ Range(ListOf(cat)) \cup Range(Values(vm_cfg[cat]))
              \subseteq { AddressOf(EndpointsOf(cat)[i]) : i \in 1..Len(EndpointsOf(cat)) }

\* C25 witness: both categories are configured, vuart is False for a native
\* address of its own and ivshmem is True.
C25_Witness ==
    /\ pc = "done"
    /\ HasNativeAddress("vuart")
    /\ vuart_result = "False"
    /\ Configured("ivshmem")
    /\ ivshmem_result = "True"

\* C26: from the first read of self.native on, the set of addresses in
\* self.native_ is the set of the board's addresses without 00:00.0, whatever
\* pass reads it again; before the first read the list is empty.
C26_NativeSetReadOnly ==
    Range(native_) = (IF pc = "validate" THEN {} ELSE NativeSet)

\* C26 witness: the property was read three times, the list holds every
\* address three times, and the set is the board's.
C26_Witness ==
    /\ pc = "done"
    /\ NativeSet # {}
    /\ Configured("vuart") /\ AllRecorded("vuart")
    /\ Configured("ivshmem") /\ AllRecorded("ivshmem")
    /\ Len(native_) = 3 * Cardinality(NativeSet)
    /\ Range(native_) = NativeSet

\* C27: in a configured category that is True every endpoint names a VM of the
\* scenario, every address of a POST_LAUNCHED_VM has a device field of at
\* least 3 and below 30, and no VM has one address twice.
C27_TrueCategoryIsClean ==
    pc = "done" =>
        \A cat \in Cats : (Configured(cat) /\ ResultOf(cat) = "True") =>
            /\ \A i \in 1..Len(EndpointsOf(cat)) :
                  LET p == EndpointsOf(cat)[i]
                  IN  /\ KnownVm(p.vm_name)
                      /\ LoadOrderOf(p.vm_name) = "POST_LAUNCHED_VM" =>
                            /\ IsAddress(AddressOf(p))
                            /\ DeviceOf(AddressOf(p)) >= 3
                            /\ DeviceOf(AddressOf(p)) < 30
            /\ ~SameVmTwice(cat)

\* the position of validate() in the order pci, vuart, ivshmem, report
PcRank ==
    CASE pc = "validate" -> 0
      [] pc = "vuart" -> 1
      [] pc = "vuart_loop" -> 2
      [] pc = "ivshmem" -> 3
      [] pc = "ivshmem_loop" -> 4
      [] pc = "report" -> 5
      [] OTHER -> 6

\* a step moves validate() on, or moves a loop to a later endpoint
Progress ==
    \/ PcRank' > PcRank
    \/ /\ PcRank' = PcRank
       /\ PcRank \in { 2, 4 }
       /\ gi' > gi \/ (gi' = gi /\ ei' > ei)

\* the positions at which validate() has a step to take
Running == { "validate", "vuart", "vuart_loop", "ivshmem", "ivshmem_loop", "report" }

\* C28: validate() evaluates pci, vuart and ivshmem once each in that order
\* and processes no endpoint twice, so every step moves it on in a finite
\* order, and where it has no step left it has reached the final verdict.
C28_ValidateTerminates ==
    /\ [][Progress]_vars
    /\ [](pc \notin Running => (pc = "done" /\ ret \in { "True", "False" }))

\* C29: every later validate() call on an instance ends as the first did:
\* the same pci, vuart and ivshmem results, the same report and verdict (and
\* the same exception where the first call raised).
C29_RepeatedValidateSameVerdict ==
    (calls > 1 /\ Terminated) => Outcome = first_outcome

\* C29 witness: a third call has returned True while the instance lists hold
\* their values several times over.
C29_Witness ==
    /\ calls = 3
    /\ pc = "done"
    /\ ret = "True"
    /\ Len(vuart_vbdfs) > Cardinality(Range(vuart_vbdfs))
    /\ Len(native_) > Cardinality(Range(native_))

RECURSIVE LinesOf(_, _)
\* the lines of a text, each with its newline; cur is the line being read
LinesOf(text, cur) ==
    IF text = << >> THEN (IF cur = << >> THEN << >> ELSE << cur >>)
    ELSE IF Head(text) = "\n" THEN << Append(cur, "\n") >> \o LinesOf(Tail(text), << >>)
    ELSE LinesOf(Tail(text), Append(cur, Head(text)))

\* usb_plug after a line read with usb_plug = u, by the three-state machine
PlugAfter(u, line) ==
    CASE u = 0 -> IF Contains(line, Usb_dmixer) \/ Contains(line, Usb_dsnooper) THEN 1 ELSE 0
      [] u = 1 -> IF Contains(line, Slave) THEN 2 ELSE 1
      [] OTHER -> 0

\* C30: update_asound reads the lines with usb_plug 0, 1 after a line with
\* usb_dmixer or usb_dsnooper, 2 after a following line with slave, and 0
\* again after the line read with 2; in the file it leaves, the lines are as
\* many as before, in their order, and every line not read with usb_plug = 2
\* is unchanged.
C30_AsoundStateMachine ==
    /\ \A i \in 1..Len(plug_at) :
          plug_at[i] = (IF i = 1 THEN 0 ELSE PlugAfter(plug_at[i - 1], f_conf[i - 1]))
    /\ ua_pc \in { "written", "raised" } =>
          /\ Len(LinesOf(asound_conf, << >>)) = Len(f_conf)
          /\ \A i \in 1..Len(f_conf) :
                (i > Len(plug_at) \/ plug_at[i] # 2) =>
                    (i <= Len(LinesOf(asound_conf, << >>))
                     /\ LinesOf(asound_conf, << >>)[i] = f_conf[i])

=============================================================================
